---------------------------- MODULE Spec2Model ----------------------------
(***************************************************************************)
(* merge_aiff_tags.py: aggregate several AIFF folders into one album.      *)
(*                                                                         *)
(* Strings are sequences of one-character strings, so that lower(), stem,  *)
(* strip(), the leading-integer regex and str.join are computed and not  *)
(* assumed.  Optional[str] is either a character sequence or None.         *)
(***************************************************************************)
EXTENDS Integers, Sequences, FiniteSets, TLC

VARIABLES
    pc,            \* position of the run (see PcValues)
    fs,            \* the file system under root: folder name -> set of names, or Missing
    sort_mode,     \* --sort / the sort_mode parameter
    dirs,          \* dir_list of main / the dirs parameter
    track_titles,  \* the loaded track titles
    cover_path,    \* None or the name of the cover image
    args,          \* artist, date, venue, location, genre, album as given on the command line
    album,         \* final_album
    disc_idx,      \* enumerate(dirs, start=1) position of the collection loop
    all_files,     \* list of (file_path, disc_number)
    total_tracks,  \* len(all_files), set once
    cover,         \* cover_bytes / cover_mime as loaded
    tracklist_file,\* what the run found at the --tracklist path
    cover_file,    \* what the run found at cover_path
    global_counter,
    title_idx,
    pos,           \* position of the write loop in all_files
    calls,         \* every write_tags invocation of the run, in order, with its outcome
    disk           \* tags saved in each file that has been saved

vars == <<pc, fs, sort_mode, dirs, track_titles, cover_path, args, album,
          disc_idx, all_files, total_tracks, cover, tracklist_file, cover_file,
          global_counter, title_idx, pos, calls, disk>>

----------------------------------------------------------------------------
(* Bounds of the model *)

MaxDirs == 2

MaxTitles == 2

MaxGlob == 3

----------------------------------------------------------------------------
(* Characters and strings *)

None == <<"<None>">>

\* the characters of the model in code-point order; "EnDash" stands for U+2013
CodePoints == <<" ", "-", ".", "0", "1", "2", "9", "A", "I", "T", "X",
                "a", "c", "f", "g", "i", "k", "n", "o", "r", "s", "t", "x", "y",
                "EnDash">>

Ord(c) == CHOOSE i \in 1..Len(CodePoints) : CodePoints[i] = c

Digits == {"0", "1", "2", "9"}

DigitValue(c) == CASE c = "0" -> 0 [] c = "1" -> 1 [] c = "2" -> 2 [] c = "9" -> 9

LowerChar(c) ==
    CASE c = "A" -> "a" [] c = "I" -> "i" [] c = "T" -> "t" [] c = "X" -> "x"
      [] c = "P" -> "p" [] c = "N" -> "n" [] c = "G" -> "g"
      [] OTHER -> c

\* str.lower()
Lower(s) == [i \in 1..Len(s) |-> LowerChar(s[i])]

RECURSIVE StrLess(_, _)
\* s < t on Python strings: code-point lexicographic, a proper prefix is smaller
StrLess(s, t) ==
    IF t = <<>> THEN FALSE
    ELSE IF s = <<>> THEN TRUE
    ELSE IF Head(s) = Head(t) THEN StrLess(Tail(s), Tail(t))
    ELSE Ord(Head(s)) < Ord(Head(t))

\* position of the last c in s, 0 when absent (str.rfind, 1-based)
RFind(s, c) ==
    IF \E i \in 1..Len(s) : s[i] = c
    THEN CHOOSE i \in 1..Len(s) : s[i] = c /\ \A j \in (i+1)..Len(s) : s[j] # c
    ELSE 0

\* PurePath.stem: the name up to its last dot, unless that dot leads or ends the name
Stem(name) ==
    LET i == RFind(name, ".")
    IN IF 1 < i /\ i < Len(name) THEN SubSeq(name, 1, i - 1) ELSE name

\* str.strip() for the blank character
RECURSIVE LStrip(_)
LStrip(s) == IF s # <<>> /\ Head(s) = " " THEN LStrip(Tail(s)) ELSE s

RECURSIVE RStrip(_)
RStrip(s) ==
    IF s # <<>> /\ s[Len(s)] = " " THEN RStrip(SubSeq(s, 1, Len(s) - 1)) ELSE s

Strip(s) == RStrip(LStrip(s))

\* truth value of an Optional[str]
Truthy(s) == s # None /\ s # <<>>

----------------------------------------------------------------------------
(* Sorting helpers, lines 43-56 *)

\* the first maximal run of digits of s, <<>> when s has no digit: group 1 of ^\D*(\d+)
FirstDigitRun(s) ==
    IF \E i \in 1..Len(s) : s[i] \in Digits
    THEN LET a == CHOOSE i \in 1..Len(s) :
                      s[i] \in Digits /\ \A j \in 1..(i-1) : s[j] \notin Digits
             b == CHOOSE k \in a..Len(s) :
                      /\ \A j \in a..k : s[j] \in Digits
                      /\ (k = Len(s) \/ s[k+1] \notin Digits)
         IN SubSeq(s, a, b)
    ELSE <<>>

RECURSIVE IntOf(_)
\* int() of a run of digits
IntOf(ds) ==
    IF ds = <<>> THEN 0
    ELSE 10 * IntOf(SubSeq(ds, 1, Len(ds) - 1)) + DigitValue(ds[Len(ds)])

\* a mutant of _numeric_key: a file without a number gets 0, not infinity
NumericKeyZero(name) ==
    LET run == FirstDigitRun(Stem(name))
    IN IF run # <<>>
       THEN [inf |-> FALSE, n |-> IntOf(run), s |-> Lower(name)]
       ELSE [inf |-> FALSE, n |-> 0, s |-> Lower(name)]

\* _numeric_key: (int, name.lower()) or (float("inf"), name.lower())
NumericKey(name) ==
    LET run == FirstDigitRun(Stem(name))
    IN IF run # <<>>
       THEN [inf |-> FALSE, n |-> IntOf(run), s |-> Lower(name)]
       ELSE [inf |-> TRUE, n |-> 0, s |-> Lower(name)]

\* _alpha_key, in the shape of the numeric key with an unused first component
AlphaKey(name) == [inf |-> FALSE, n |-> 0, s |-> Lower(name)]

\* a mutant of the sorter lookup: an unknown mode gets the numeric sorter
SorterKeyNumericDefault(mode, name) ==
    IF mode = "alpha" THEN AlphaKey(name) ELSE NumericKey(name)

\* SORTERS.get(sort_mode, _alpha_key)(p)
SorterKey(mode, name) ==
    IF mode = "numeric" THEN NumericKey(name) ELSE AlphaKey(name)

\* k1 < k2 on the key tuples (int and float("inf") compare as numbers)
KeyLess(k1, k2) ==
    LET numLess == ~k1.inf /\ (k2.inf \/ k1.n < k2.n)
        numEq == k1.inf = k2.inf /\ (k1.inf \/ k1.n = k2.n)
    IN numLess \/ (numEq /\ StrLess(k1.s, k2.s))

RECURSIVE InsertSorted(_, _, _)
\* insert x behind every element whose key is not greater: one step of a stable sort
InsertSorted(x, out, mode) ==
    IF out = <<>> THEN <<x>>
    ELSE IF KeyLess(SorterKey(mode, x), SorterKey(mode, Head(out)))
         THEN <<x>> \o out
         ELSE <<Head(out)>> \o InsertSorted(x, Tail(out), mode)

RECURSIVE SortedFrom(_, _, _)
SortedFrom(rest, out, mode) ==
    IF rest = <<>> THEN out
    ELSE SortedFrom(Tail(rest), InsertSorted(Head(rest), out, mode), mode)

\* sorted(listing, key=sorter): stable
Sorted(listing, mode) == SortedFrom(listing, <<>>, mode)

----------------------------------------------------------------------------
(* Album title, lines 62-74 and 326-335 *)

\* the separator of build_album_title: blank, en dash, blank
Separator == <<" ", "EnDash", " ">>

RECURSIVE Join(_, _)
\* sep.join(parts)
Join(parts, sep) ==
    IF parts = <<>> THEN <<>>
    ELSE IF Len(parts) = 1 THEN parts[1]
    ELSE parts[1] \o sep \o Join(Tail(parts), sep)

\* a mutant of build_album_title: every field is appended, present or not
BuildAlbumTitleAllFields(artist, date_iso, venue, location) ==
    Join(<<artist, date_iso,
           IF venue = None THEN <<>> ELSE venue,
           IF location = None THEN <<>> ELSE location>>, Separator)

\* build_album_title
BuildAlbumTitle(artist, date_iso, venue, location) ==
    LET parts == <<artist, date_iso>>
                 \o (IF Truthy(venue) THEN <<venue>> ELSE <<>>)
                 \o (IF Truthy(location) THEN <<location>> ELSE <<>>)
    IN Join(parts, Separator)

\* final_album of main
FinalAlbum(a) ==
    IF Truthy(a.album) THEN a.album
    ELSE BuildAlbumTitle(a.artist, a.date, a.venue, a.location)

----------------------------------------------------------------------------
(* Track list, lines 133-139 *)

\* [ln.strip() for ln in lines if ln.strip()]
LoadTracklist(lines) ==
    LET stripped == [i \in 1..Len(lines) |-> Strip(lines[i])]
        NonBlank(ln) == ln # <<>>
    IN SelectSeq(stripped, NonBlank)

----------------------------------------------------------------------------
(* Inputs of the model *)

Aiff == <<".", "a", "i", "f", "f">>

Folders == {<<"c", "d", "1">>, <<"c", "d", "2">>}

\* file names of the run model
N2 == <<"2">> \o Aiff
N10 == <<"1", "0">> \o Aiff
Nx == <<"x">> \o Aiff
Notes == <<"n", ".", "t", "x", "t">>

\* file names of the sort model
SortNames ==
    { <<"2", "-", "s", "o", "n", "g">> \o Aiff,
      <<"1", "0", "-", "t", "r", "a", "c", "k">> \o Aiff,
      <<"i", "n", "t", "r", "o">> \o Aiff,
      <<"0", "2">> \o Aiff,
      <<"A">> \o Aiff,
      <<"a">> \o Aiff,
      <<"x", "9">> \o Aiff }

NotADir == [is_dir |-> FALSE, names |-> {}]

Dir(names) == [is_dir |-> TRUE, names |-> names]

FolderStates == {NotADir, Dir({Notes}), Dir({Nx}), Dir({N10, N2, Notes})}

SeqsUpTo(S, n) == UNION {[1..k -> S] : k \in 0..n}

DirLists == SeqsUpTo(Folders, MaxDirs)

\* the comma-separated pieces of --dirs
DirTokens == {<<>>, <<" ">>} \cup Folders \cup {<<" ">> \o d \o <<" ">> : d \in Folders}

Titles == {<<"T", "1">>, <<"T", "2">>}

TitleLists == SeqsUpTo(Titles, MaxTitles)

\* the lines a track-list file may hold
RawLines == {<<"T", "1">>, <<" ", "T", "2", " ">>, <<" ">>}

TracklistFiles == SeqsUpTo(RawLines, MaxTitles)

CoverPaths == {None, <<"c", ".", "j", "p", "g">>, <<"c", ".", "P", "N", "G">>,
               <<"c", ".", "g", "i", "f">>}

RunArgs ==
    [artist |-> <<"A">>, date |-> <<"2", "9">>, venue |-> None,
     location |-> <<"c">>, genre |-> None, album |-> None]

AllAlbumArgs ==
    [artist : {<<>>, <<"A">>}, date : {<<>>, <<"2", "9">>},
     venue : {None, <<>>, <<"X">>}, location : {None, <<>>, <<"c">>},
     genre : {None}, album : {None, <<>>, <<"T">>}]

NoCover == [bytes |-> None, mime |-> None]

Terminal == {"done", "exit1", "exit2", "crashed"}

----------------------------------------------------------------------------
(* File system helpers *)

EndsWith(s, suffix) ==
    Len(s) >= Len(suffix) /\ SubSeq(s, Len(s) - Len(suffix) + 1, Len(s)) = suffix

\* folder.glob("*.aiff") as a set; the order of the listing is the platform's
Glob(folder) == {n \in fs[folder].names : EndsWith(n, Aiff)}

\* every order in which a listing may return the names of S
Listings(S) ==
    {p \in [1..Cardinality(S) -> S] : \A i, j \in DOMAIN p : i # j => p[i] # p[j]}

\* PurePath.suffix
Suffix(name) ==
    LET i == RFind(name, ".")
    IN IF 1 < i /\ i < Len(name) THEN SubSeq(name, i, Len(name)) ELSE <<>>

\* cover_mime from the extension, lines 193-200
CoverMime(path) ==
    LET ext == Lower(Suffix(path))
    IN IF ext \in {<<".", "j", "p", "g">>, <<".", "j", "p", "e", "g">>} THEN "image/jpeg"
       ELSE IF ext = <<".", "p", "n", "g">> THEN "image/png"
       ELSE "image/jpeg"

----------------------------------------------------------------------------
(* main, lines 295-353 *)

Init ==
    /\ pc = "start"
    /\ fs \in [Folders -> FolderStates]
    /\ sort_mode = "alpha"
    /\ dirs = <<>>
    /\ track_titles = <<>>
    /\ cover_path = None
    /\ args = RunArgs
    /\ album = None
    /\ disc_idx = 1
    /\ all_files = <<>>
    /\ total_tracks = 0
    /\ cover = NoCover
    /\ tracklist_file = "unset"
    /\ cover_file = "unset"
    /\ global_counter = 1
    /\ title_idx = 0
    /\ pos = 1
    /\ calls = <<>>
    /\ disk = <<>>

\* parser.parse_args(): --sort is limited to its choices and defaults to alpha;
\* an invalid choice ends the process with status 2
MainParse ==
    /\ pc = "start"
    /\ \E s \in {"<absent>", "alpha", "numeric", "bogus"}, c \in CoverPaths :
          /\ sort_mode' = IF s = "<absent>" THEN "alpha" ELSE s
          /\ cover_path' = c
          /\ pc' = IF s \in {"<absent>", "alpha", "numeric"} THEN "main_root" ELSE "exit2"
    /\ UNCHANGED <<fs, dirs, track_titles, args, album, disc_idx, all_files,
                   total_tracks, cover, tracklist_file, cover_file, global_counter,
                   title_idx, pos, calls, disk>>

\* lines 299-302
MainRoot ==
    /\ pc = "main_root"
    /\ \E root_is_dir \in BOOLEAN :
          pc' = IF root_is_dir THEN "main_dirs" ELSE "exit1"
    /\ UNCHANGED <<fs, sort_mode, dirs, track_titles, cover_path, args, album,
                   disc_idx, all_files, total_tracks, cover, tracklist_file,
                   cover_file, global_counter, title_idx, pos, calls, disk>>

\* dir_list = [d.strip() for d in args.dirs.split(",") if d.strip()]
DirList(tokens) ==
    LET stripped == [i \in 1..Len(tokens) |-> Strip(tokens[i])]
        NonBlank(d) == d # <<>>
    IN SelectSeq(stripped, NonBlank)

\* lines 304-307
MainDirs ==
    /\ pc = "main_dirs"
    /\ \E tokens \in SeqsUpTo(DirTokens, MaxDirs) :
          /\ dirs' = DirList(tokens)
          /\ pc' = IF DirList(tokens) = <<>> THEN "exit1" ELSE "main_tracklist"
    /\ UNCHANGED <<fs, sort_mode, track_titles, cover_path, args, album, disc_idx,
                   all_files, total_tracks, cover, tracklist_file, cover_file,
                   global_counter, title_idx, pos, calls, disk>>

\* lines 309-316 with load_tracklist
MainTracklist ==
    /\ pc = "main_tracklist"
    /\ \/ /\ tracklist_file' = "none"
          /\ track_titles' = <<>>
          /\ pc' = "main_album"
       \/ /\ tracklist_file' \in {"notfile", "unreadable"}
          /\ track_titles' = <<>>
          /\ pc' = "exit1"
       \/ \E lines \in TracklistFiles :
             /\ tracklist_file' = "loaded"
             /\ track_titles' = LoadTracklist(lines)
             /\ pc' = "main_album"
    /\ UNCHANGED <<fs, sort_mode, dirs, cover_path, args, album, disc_idx, all_files,
                   total_tracks, cover, cover_file, global_counter, title_idx, pos,
                   calls, disk>>

\* lines 326-353: the album title, then process_directories is entered
MainAlbum ==
    /\ pc = "main_album"
    /\ album' = FinalAlbum(args)
    /\ pc' = "collect"
    /\ UNCHANGED <<fs, sort_mode, dirs, track_titles, cover_path, args, disc_idx,
                   all_files, total_tracks, cover, tracklist_file, cover_file,
                   global_counter, title_idx, pos, calls, disk>>

\* process_directories called by another module with parameters of its own
CallProcess ==
    /\ pc = "start"
    /\ sort_mode' \in {"alpha", "numeric", "bogus"}
    /\ dirs' \in DirLists
    /\ track_titles' \in TitleLists
    /\ cover_path' \in CoverPaths
    /\ album' = <<"T">>
    /\ tracklist_file' = "none"
    /\ pc' = "collect"
    /\ UNCHANGED <<fs, args, disc_idx, all_files, total_tracks, cover, cover_file,
                   global_counter, title_idx, pos, calls, disk>>

----------------------------------------------------------------------------
(* process_directories, lines 145-235 *)

\* a mutant of the disc number: missing folders do not count
DiscNumberCompact(idx) == Cardinality({j \in 1..idx : fs[dirs[j]].is_dir})

\* disc_idx of enumerate(dirs, start=1)
DiscNumber(idx) == idx

\* lines 173-176: the entries one folder adds
FolderEntries(listing, folder, idx) ==
    LET files == Sorted(listing, sort_mode)
    IN [i \in 1..Len(files) |->
          [name |-> files[i], folder |-> folder, disc |-> DiscNumber(idx)]]

\* lines 169-171
SkipMissing ==
    /\ pc = "collect"
    /\ disc_idx <= Len(dirs)
    /\ ~fs[dirs[disc_idx]].is_dir
    /\ disc_idx' = disc_idx + 1
    /\ UNCHANGED <<pc, fs, sort_mode, dirs, track_titles, cover_path, args, album,
                   all_files, total_tracks, cover, tracklist_file, cover_file,
                   global_counter, title_idx, pos, calls, disk>>

\* lines 173-176
CollectFolder ==
    /\ pc = "collect"
    /\ disc_idx <= Len(dirs)
    /\ fs[dirs[disc_idx]].is_dir
    /\ \E listing \in Listings(Glob(dirs[disc_idx])) :
          all_files' = all_files \o FolderEntries(listing, dirs[disc_idx], disc_idx)
    /\ disc_idx' = disc_idx + 1
    /\ UNCHANGED <<pc, fs, sort_mode, dirs, track_titles, cover_path, args, album,
                   total_tracks, cover, tracklist_file, cover_file, global_counter,
                   title_idx, pos, calls, disk>>

\* a mutant of lines 178-181: the empty collection is not checked
CountTracksUnchecked ==
    /\ pc = "collect"
    /\ disc_idx > Len(dirs)
    /\ total_tracks' = Len(all_files)
    /\ pc' = "cover"
    /\ UNCHANGED <<fs, sort_mode, dirs, track_titles, cover_path, args, album,
                   disc_idx, all_files, cover, tracklist_file, cover_file,
                   global_counter, title_idx, pos, calls, disk>>

\* lines 178-181
CountTracks ==
    /\ pc = "collect"
    /\ disc_idx > Len(dirs)
    /\ total_tracks' = Len(all_files)
    /\ pc' = IF Len(all_files) = 0 THEN "exit1" ELSE "cover"
    /\ UNCHANGED <<fs, sort_mode, dirs, track_titles, cover_path, args, album,
                   disc_idx, all_files, cover, tracklist_file, cover_file,
                   global_counter, title_idx, pos, calls, disk>>

\* a mutant of lines 186-200: the cover is not looked at before the loop
LoadCoverLate ==
    /\ pc = "cover"
    /\ \/ /\ cover_path = None
          /\ cover_file' = "none"
       \/ /\ cover_path # None
          /\ cover_file' \in {"notfile", "unreadable", "loaded"}
    /\ cover' = NoCover
    /\ pc' = "write"
    /\ UNCHANGED <<fs, sort_mode, dirs, track_titles, cover_path, args, album,
                   disc_idx, all_files, total_tracks, tracklist_file, global_counter,
                   title_idx, pos, calls, disk>>

\* lines 186-200: is_file() fails with exit status 1, read_bytes() may raise
LoadCover ==
    /\ pc = "cover"
    /\ \/ /\ cover_path = None
          /\ cover_file' = "none"
          /\ cover' = NoCover
          /\ pc' = "write"
       \/ /\ cover_path # None
          /\ cover_file' = "notfile"
          /\ cover' = NoCover
          /\ pc' = "exit1"
       \/ /\ cover_path # None
          /\ cover_file' = "unreadable"
          /\ cover' = NoCover
          /\ pc' = "crashed"
       \/ /\ cover_path # None
          /\ cover_file' = "loaded"
          /\ cover' = [bytes |-> <<"x">>, mime |-> CoverMime(cover_path)]
          /\ pc' = "write"
    /\ UNCHANGED <<fs, sort_mode, dirs, track_titles, cover_path, args, album,
                   disc_idx, all_files, total_tracks, tracklist_file, global_counter,
                   title_idx, pos, calls, disk>>

\* number of entries before position p that come from the same disc as entry p
BeforeInDisc(p) ==
    Cardinality({j \in 1..(p - 1) : all_files[j].disc = all_files[p].disc})

\* a mutant of the title choice: the title list restarts with every disc
TitleForPerDisc(entry, idx) ==
    IF BeforeInDisc(pos) < Len(track_titles)
    THEN track_titles[BeforeInDisc(pos) + 1]
    ELSE Stem(entry.name)

\* lines 210-214
TitleFor(entry, idx) ==
    IF idx < Len(track_titles) THEN track_titles[idx + 1] ELSE Stem(entry.name)

\* a mutant of the write_tags call: the total is the number of tracks so far
WriteRecordRunningTotal(entry, title) ==
    [path |-> <<entry.folder, entry.name>>, album |-> album, artist |-> args.artist,
     date_iso |-> args.date, venue |-> args.venue, location |-> args.location,
     track_number |-> global_counter, total_tracks |-> global_counter,
     disc_number |-> entry.disc, title |-> title, genre |-> args.genre,
     cover_mime |-> cover.mime]

\* a mutant of the write_tags call: the track number restarts with every disc
WriteRecordPerDisc(entry, title) ==
    [path |-> <<entry.folder, entry.name>>, album |-> album, artist |-> args.artist,
     date_iso |-> args.date, venue |-> args.venue, location |-> args.location,
     track_number |-> BeforeInDisc(pos) + 1, total_tracks |-> total_tracks,
     disc_number |-> entry.disc, title |-> title, genre |-> args.genre,
     cover_mime |-> cover.mime]

\* the arguments of the write_tags call, lines 216-230
WriteRecord(entry, title) ==
    [path |-> <<entry.folder, entry.name>>, album |-> album, artist |-> args.artist,
     date_iso |-> args.date, venue |-> args.venue, location |-> args.location,
     track_number |-> global_counter, total_tracks |-> total_tracks,
     disc_number |-> entry.disc, title |-> title, genre |-> args.genre,
     cover_mime |-> cover.mime]

\* the frames write_tags saves, lines 102-127
Tags(rec) ==
    [TPE1 |-> rec.artist, TALB |-> rec.album, TDRC |-> rec.date_iso,
     TRCK |-> <<rec.track_number, rec.total_tracks>>, TPOS |-> rec.disc_number,
     TIT2 |-> rec.title, TCON |-> IF Truthy(rec.genre) THEN rec.genre ELSE <<>>,
     Venue |-> IF Truthy(rec.venue) THEN rec.venue ELSE None,
     Location |-> IF Truthy(rec.location) THEN rec.location ELSE None,
     APIC |-> rec.cover_mime]

\* one iteration of the loop of lines 208-235 in which write_tags returns
WriteOk ==
    /\ pc = "write"
    /\ pos <= Len(all_files)
    /\ LET entry == all_files[pos]
           rec == WriteRecord(entry, TitleFor(entry, title_idx))
       IN /\ calls' = Append(calls, [rec |-> rec, ok |-> TRUE])
          /\ disk' = (rec.path :> Tags(rec)) @@ disk
    /\ title_idx' = IF title_idx < Len(track_titles) THEN title_idx + 1 ELSE title_idx
    /\ global_counter' = global_counter + 1
    /\ pos' = pos + 1
    /\ UNCHANGED <<pc, fs, sort_mode, dirs, track_titles, cover_path, args, album,
                   disc_idx, all_files, total_tracks, cover, tracklist_file,
                   cover_file>>

\* a mutant of the loop: a failing file is reported and the loop goes on
WriteFailContinue ==
    /\ pc = "write"
    /\ pos <= Len(all_files)
    /\ LET entry == all_files[pos]
           rec == WriteRecord(entry, TitleFor(entry, title_idx))
       IN calls' = Append(calls, [rec |-> rec, ok |-> FALSE])
    /\ title_idx' = IF title_idx < Len(track_titles) THEN title_idx + 1 ELSE title_idx
    /\ global_counter' = global_counter + 1
    /\ pos' = pos + 1
    /\ UNCHANGED <<pc, fs, sort_mode, dirs, track_titles, cover_path, args, album,
                   disc_idx, all_files, total_tracks, cover, tracklist_file,
                   cover_file, disk>>

\* one iteration in which write_tags raises (AIFF() or save()): nothing catches it
WriteFail ==
    /\ pc = "write"
    /\ pos <= Len(all_files)
    /\ LET entry == all_files[pos]
           rec == WriteRecord(entry, TitleFor(entry, title_idx))
       IN calls' = Append(calls, [rec |-> rec, ok |-> FALSE])
    /\ title_idx' = IF title_idx < Len(track_titles) THEN title_idx + 1 ELSE title_idx
    /\ pc' = "crashed"
    /\ UNCHANGED <<fs, sort_mode, dirs, track_titles, cover_path, args, album,
                   disc_idx, all_files, total_tracks, cover, tracklist_file,
                   cover_file, global_counter, pos, disk>>

\* the loop is exhausted: process_directories returns
Finish ==
    /\ pc = "write"
    /\ pos > Len(all_files)
    /\ pc' = "done"
    /\ UNCHANGED <<fs, sort_mode, dirs, track_titles, cover_path, args, album,
                   disc_idx, all_files, total_tracks, cover, tracklist_file,
                   cover_file, global_counter, title_idx, pos, calls, disk>>

Next ==
    \/ MainParse
    \/ MainRoot
    \/ MainDirs
    \/ MainTracklist
    \/ MainAlbum
    \/ CallProcess
    \/ SkipMissing
    \/ CollectFolder
    \/ CountTracks
    \/ LoadCover
    \/ WriteOk
    \/ WriteFail
    \/ Finish

Spec == Init /\ [][Next]_vars

----------------------------------------------------------------------------
(* One folder with a richer set of names, to exercise the sorters *)

CD1 == <<"c", "d", "1">>

CD2 == <<"c", "d", "2">>

InitSort ==
    /\ pc = "collect"
    /\ \E S \in SUBSET (SortNames \cup {Notes}) :
          /\ Cardinality(S) <= MaxGlob
          /\ fs = [d \in Folders |-> IF d = CD1 THEN Dir(S) ELSE NotADir]
    /\ sort_mode \in {"alpha", "numeric", "bogus"}
    /\ dirs = <<CD1>>
    /\ track_titles = <<>>
    /\ cover_path = None
    /\ args = RunArgs
    /\ album = <<"T">>
    /\ disc_idx = 1
    /\ all_files = <<>>
    /\ total_tracks = 0
    /\ cover = NoCover
    /\ tracklist_file = "none"
    /\ cover_file = "unset"
    /\ global_counter = 1
    /\ title_idx = 0
    /\ pos = 1
    /\ calls = <<>>
    /\ disk = <<>>

NextSort == CollectFolder

SpecSort == InitSort /\ [][NextSort]_vars

----------------------------------------------------------------------------
(* main at the album title, with every combination of the title fields *)

InitAlbum ==
    /\ pc = "main_album"
    /\ fs = [d \in Folders |-> NotADir]
    /\ sort_mode = "alpha"
    /\ dirs = <<CD1>>
    /\ track_titles = <<>>
    /\ cover_path = None
    /\ args \in AllAlbumArgs
    /\ album = None
    /\ disc_idx = 1
    /\ all_files = <<>>
    /\ total_tracks = 0
    /\ cover = NoCover
    /\ tracklist_file = "none"
    /\ cover_file = "unset"
    /\ global_counter = 1
    /\ title_idx = 0
    /\ pos = 1
    /\ calls = <<>>
    /\ disk = <<>>

NextAlbum == MainAlbum

SpecAlbum == InitAlbum /\ [][NextAlbum]_vars

----------------------------------------------------------------------------
(* Vocabulary of the properties *)

\* the collection loop has visited every folder
Collected == pc \in {"collect", "cover", "write", "done"} /\ disc_idx > Len(dirs)

CallPath(i) == calls[i].rec.path

EntryPath(i) == <<all_files[i].folder, all_files[i].name>>

\* the i-th write_tags call is made for the i-th collected entry
CallsFollowEntries ==
    /\ Len(calls) <= Len(all_files)
    /\ \A i \in 1..Len(calls) : CallPath(i) = EntryPath(i)

\* the name with its ".aiff" removed
BaseName(name) == SubSeq(name, 1, Len(name) - Len(Aiff))

HasLeadingInt(name) == \E i \in 1..Len(BaseName(name)) : BaseName(name)[i] \in Digits

LeadingInt(name) == IntOf(FirstDigitRun(BaseName(name)))

\* a comes no later than b in case-insensitive filename order
AlphaLeq(a, b) == ~StrLess(Lower(b), Lower(a))

\* the entries of one disc are in case-insensitive filename order
AlphaOrdered ==
    \A i, j \in 1..Len(all_files) :
        (i < j /\ all_files[i].disc = all_files[j].disc)
            => AlphaLeq(all_files[i].name, all_files[j].name)

\* the entries of one disc are in numeric order
NumericOrdered ==
    \A i, j \in 1..Len(all_files) :
        (i < j /\ all_files[i].disc = all_files[j].disc) =>
            LET a == all_files[i].name
                b == all_files[j].name
            IN /\ (HasLeadingInt(a) /\ HasLeadingInt(b)) =>
                     /\ LeadingInt(a) <= LeadingInt(b)
                     /\ LeadingInt(a) = LeadingInt(b) => AlphaLeq(a, b)
               /\ ~HasLeadingInt(a) => (~HasLeadingInt(b) /\ AlphaLeq(a, b))

\* the entries carrying disc number p
EntriesOfDisc(p) == {i \in 1..Len(all_files) : all_files[i].disc = p}

\* the pieces of s between the occurrences of sep
RECURSIVE SplitFrom(_, _, _)
SplitFrom(s, sep, cur) ==
    IF s = <<>> THEN <<cur>>
    ELSE IF Len(s) >= Len(sep) /\ SubSeq(s, 1, Len(sep)) = sep
         THEN <<cur>> \o SplitFrom(SubSeq(s, Len(sep) + 1, Len(s)), sep, <<>>)
         ELSE SplitFrom(Tail(s), sep, Append(cur, Head(s)))

Split(s, sep) == SplitFrom(s, sep, <<>>)

Contains(s, part) ==
    \E i \in 1..(Len(s) - Len(part) + 1) : SubSeq(s, i, i + Len(part) - 1) = part

NoEmptySegment(s) ==
    /\ \A i \in DOMAIN Split(s, Separator) : Split(s, Separator)[i] # <<>>
    /\ ~Contains(s, Separator \o Separator)

----------------------------------------------------------------------------
(* Properties *)

\* C1 as stated: every run that collects at least one file passes exactly the
\* track numbers 1..total_tracks to write_tags by the time it has ended.
C1_EveryRunNumbersAll ==
    (pc \in Terminal /\ disc_idx > Len(dirs) /\ Len(all_files) >= 1) =>
        /\ Len(calls) = Len(all_files)
        /\ \A i \in 1..Len(calls) : calls[i].rec.track_number = i

\* C1 amended: the i-th write_tags call of a run is made for the i-th collected
\* entry and gets track number i, so the numbers passed are 1, 2, ... without gap
\* or duplicate, increasing in visiting order (discs in the supplied order, the
\* sort order inside a disc); a run that completes has passed exactly
\* 1..total_tracks, a run stopped by a cover error or a write failure a prefix.
C1_TrackNumbers ==
    /\ CallsFollowEntries
    /\ \A i \in 1..Len(calls) : calls[i].rec.track_number = i
    /\ \A i, j \in 1..Len(all_files) :
          i < j =>
             /\ all_files[i].disc <= all_files[j].disc
             /\ all_files[i].disc = all_files[j].disc =>
                   ~KeyLess(SorterKey(sort_mode, all_files[j].name),
                            SorterKey(sort_mode, all_files[i].name))
    /\ pc = "done" =>
          /\ Len(calls) = total_tracks
          /\ total_tracks = Len(all_files)
          /\ total_tracks >= 1
          /\ \A i \in 1..Len(calls) : calls[i].ok

\* C1 witness: a completed run over two discs whose three files got 1, 2, 3.
C1_Witness ==
    /\ pc = "done"
    /\ Len(calls) = 3
    /\ calls[1].rec.disc_number = 1
    /\ calls[3].rec.disc_number = 2
    /\ calls[3].rec.track_number = 3

\* C2: the disc number of every entry is the position in dirs of the folder it
\* was listed from: the entries with disc number p are exactly the matching files
\* of dirs[p], a missing folder contributes none and does not stop the run, and
\* the folders behind it keep their positions.
C2_DiscIsPosition ==
    /\ \A p \in 1..Len(dirs) :
          IF p < disc_idx
          THEN /\ {all_files[i].name : i \in EntriesOfDisc(p)} = Glob(dirs[p])
               /\ Cardinality(EntriesOfDisc(p)) = Cardinality(Glob(dirs[p]))
               /\ \A i \in EntriesOfDisc(p) : all_files[i].folder = dirs[p]
          ELSE EntriesOfDisc(p) = {}
    /\ \A i \in 1..Len(all_files) : all_files[i].disc \in 1..Len(dirs)
    /\ \A i \in 1..Len(calls) :
          /\ calls[i].rec.disc_number \in 1..Len(dirs)
          /\ dirs[calls[i].rec.disc_number] = CallPath(i)[1]
          /\ calls[i].rec.disc_number = all_files[i].disc
    /\ \A path \in DOMAIN disk : \E p \in 1..Len(dirs) :
          dirs[p] = path[1] /\ disk[path].TPOS = p

\* C2 witness: the first folder is missing, the run completed, and a file of the
\* second folder was written with disc number 2.
C2_Witness ==
    /\ pc = "done"
    /\ Len(dirs) = 2
    /\ ~fs[dirs[1]].is_dir
    /\ calls # <<>>
    /\ calls[1].ok
    /\ calls[1].rec.disc_number = 2

\* C3: total_tracks is set once, when every folder has been collected and no
\* write_tags call has been made, to the length of the collection; every
\* write_tags call gets that total with a track number not above it, and so
\* does every saved file.
C3_TotalFixedBeforeWrites ==
    /\ [](/\ total_tracks \in {0, Len(all_files)}
          /\ calls # <<>> => (total_tracks = Len(all_files) /\ disc_idx > Len(dirs))
          /\ \A i \in 1..Len(calls) :
                /\ calls[i].rec.total_tracks = Len(all_files)
                /\ calls[i].rec.track_number <= calls[i].rec.total_tracks
          /\ \A path \in DOMAIN disk :
                /\ disk[path].TRCK[2] = Len(all_files)
                /\ disk[path].TRCK[1] <= disk[path].TRCK[2])
    /\ [][/\ total_tracks' # total_tracks =>
                (disc_idx > Len(dirs) /\ calls = <<>> /\ total_tracks = 0)
          /\ (calls' # calls /\ calls # <<>>) =>
                (total_tracks' = total_tracks /\ all_files' = all_files)]_vars

\* C3 witness: three calls have been made, each with total 3.
C3_Witness ==
    /\ Len(calls) = 3
    /\ \A i \in 1..3 : calls[i].rec.total_tracks = 3
    /\ calls[1].rec.track_number = 1

\* no supplied folder holds a matching file
NoMatches == \A p \in 1..Len(dirs) : Glob(dirs[p]) = {}

\* C4: when no supplied folder holds a matching file the run never gets past the
\* count, so it can only end with a non-zero exit status (1, or 2 from the
\* parser); write_tags is not called and nothing is saved.
C4_ZeroFilesFatal ==
    NoMatches =>
        /\ calls = <<>>
        /\ disk = <<>>
        /\ total_tracks = 0
        /\ pc \notin {"cover", "write", "done", "crashed"}

\* C4 witness: one folder missing, the other without a matching file, and the
\* run has ended with status 1 after the collection.
C4_Witness ==
    /\ pc = "exit1"
    /\ Len(dirs) = 2
    /\ disc_idx > Len(dirs)
    /\ ~fs[dirs[1]].is_dir
    /\ fs[dirs[2]].is_dir
    /\ NoMatches

\* C5: the i-th write_tags call gets track_titles[i] while the list lasts,
\* whatever the disc, and the base name of its file afterwards.
C5_TitlesByPosition ==
    /\ \A i \in 1..Len(calls) :
          calls[i].rec.title =
             IF i <= Len(track_titles) THEN track_titles[i]
             ELSE BaseName(all_files[i].name)
    /\ \A path \in DOMAIN disk :
          \/ disk[path].TIT2 = BaseName(path[2])
          \/ \E i \in 1..Len(track_titles) : disk[path].TIT2 = track_titles[i]

\* C5 witness: two titles for three files on two discs; the second title went to
\* the first file of disc 2 and the last file kept its own name; the run completed.
C5_Witness ==
    /\ pc = "done"
    /\ track_titles = << <<"T", "1">>, <<"T", "2">> >>
    /\ Len(calls) = 3
    /\ calls[1].rec.disc_number = 1
    /\ calls[2].rec.disc_number = 2
    /\ calls[2].rec.title = <<"T", "2">>
    /\ calls[3].rec.title = BaseName(all_files[3].name)

\* C6: in numeric mode the files of a folder that have a leading integer come
\* first, by the value of the integer and then by lower-cased name; the files
\* without one follow, by lower-cased name.
C6_NumericOrder ==
    (sort_mode = "numeric" /\ disc_idx > Len(dirs)) =>
        /\ {all_files[i].name : i \in 1..Len(all_files)} = Glob(dirs[1])
        /\ Len(all_files) = Cardinality(Glob(dirs[1]))
        /\ NumericOrdered

\* C6 witness: 2-song, 10-track and intro were listed and came out in that order.
C6_Witness ==
    /\ sort_mode = "numeric"
    /\ Len(all_files) = 3
    /\ all_files[1].name = <<"2", "-", "s", "o", "n", "g">> \o Aiff
    /\ all_files[2].name = <<"1", "0", "-", "t", "r", "a", "c", "k">> \o Aiff
    /\ all_files[3].name = <<"i", "n", "t", "r", "o">> \o Aiff

\* C7: only the last write_tags call of a run can have failed; after a failure
\* the run has stopped, no call was made for the same or a later entry, and every
\* file saved before it holds the tags of the last successful call made for it.
C7_WriteFailureFatal ==
    /\ CallsFollowEntries
    /\ \A i \in 1..Len(calls) : ~calls[i].ok => (i = Len(calls) /\ pc = "crashed")
    /\ \A i \in 1..Len(calls) :
          calls[i].ok =>
             /\ CallPath(i) \in DOMAIN disk
             /\ \E j \in i..Len(calls) :
                   /\ calls[j].ok
                   /\ CallPath(j) = CallPath(i)
                   /\ disk[CallPath(i)] = Tags(calls[j].rec)

\* C7 witness: the third call failed; the two files before it keep their tags.
C7_Witness ==
    /\ pc = "crashed"
    /\ Len(calls) = 3
    /\ Len(all_files) > 3
    /\ ~calls[3].ok
    /\ disk[CallPath(1)].TRCK[1] = 1
    /\ disk[CallPath(2)].TRCK[1] = 2

\* C8: once the track-list file or the cover image has been found not to be a
\* readable file, the run has ended with a non-zero status, and no write_tags
\* call was made and nothing was saved.
C8_AuxiliaryErrorsEarly ==
    (tracklist_file \in {"notfile", "unreadable"} \/ cover_file \in {"notfile", "unreadable"}) =>
        /\ pc \in {"exit1", "crashed"}
        /\ calls = <<>>
        /\ disk = <<>>

\* C8 witness: files were collected, the cover image was not a file, the run
\* ended with status 1.
C8_Witness ==
    /\ cover_file = "notfile"
    /\ pc = "exit1"
    /\ Len(all_files) >= 2

\* C9 as stated: without --album the title has no empty segment and no two
\* adjacent separators; a supplied --album is used unchanged.
C9_NeverEmptySegment ==
    pc = "collect" =>
        IF args.album = None THEN NoEmptySegment(album) ELSE album = args.album

\* C9 amended: a non-empty --album is used unchanged; otherwise (no --album, or
\* an empty one) the title is artist, date, then each of venue and location that
\* is neither absent nor empty, joined by the separator; it has no empty segment
\* and no two adjacent separators provided artist and date are not empty.
C9_AlbumTitle ==
    pc = "collect" =>
        IF args.album # None /\ args.album # <<>>
        THEN album = args.album
        ELSE /\ Split(album, Separator) =
                   <<args.artist, args.date>>
                   \o (IF args.venue \in {None, <<>>} THEN <<>> ELSE <<args.venue>>)
                   \o (IF args.location \in {None, <<>>} THEN <<>> ELSE <<args.location>>)
             /\ (args.artist # <<>> /\ args.date # <<>>) => NoEmptySegment(album)

\* C9 witness: no --album, no venue, a location: artist, date and location joined.
C9_Witness ==
    /\ pc = "collect"
    /\ args.album = None
    /\ args.venue = None
    /\ album = <<"A">> \o Separator \o <<"2", "9">> \o Separator \o <<"c">>

\* C10 as stated: a run given a sort mode other than alpha or numeric does not
\* fail on it and orders every folder as alpha does.
C10_UnknownModeNeverFails ==
    sort_mode \notin {"alpha", "numeric"} => (pc # "exit2" /\ AlphaOrdered)

\* C10 amended: process_directories orders every folder by lower-cased name
\* under any sort mode but numeric, and an unknown mode is no cause of failure
\* there; main rejects an unknown --sort with exit status 2 before any folder is
\* read, and past the parser its sort mode is alpha (the default) or numeric.
C10_UnknownModeIsAlpha ==
    /\ (sort_mode # "numeric" /\ pc # "exit2") => AlphaOrdered
    /\ pc = "exit2" =>
          (sort_mode \notin {"alpha", "numeric"} /\ all_files = <<>> /\ calls = <<>>)
    /\ pc \in {"main_root", "main_dirs", "main_tracklist", "main_album"} =>
          sort_mode \in {"alpha", "numeric"}
    /\ (sort_mode \notin {"alpha", "numeric"} /\ pc = "exit1") =>
          ((disc_idx > Len(dirs) /\ all_files = <<>>) \/ cover_file = "notfile")
    /\ (sort_mode \notin {"alpha", "numeric"} /\ pc = "crashed") =>
          (cover_file = "unreadable" \/ (calls # <<>> /\ ~calls[Len(calls)].ok))

\* C10 witness: a run with an unknown mode completed, and a folder holding
\* 10.aiff and 2.aiff was written in that order.
C10_Witness ==
    /\ pc = "done"
    /\ sort_mode = "bogus"
    /\ \E i \in 1..(Len(calls) - 1) :
          /\ calls[i].rec.path[2] = N10
          /\ calls[i + 1].rec.path[2] = N2
          /\ calls[i].rec.disc_number = calls[i + 1].rec.disc_number

============================================================================
